---- MODULE Spec2Model ----
(***************************************************************************)
(* Model of pymatgen/io/abinit/xc.py: the XcFunctional value object, its   *)
(* three constructors (__init__, from_abinit_ixc, from_name), the lazily   *)
(* computed properties type / name / type_name, and name-based equality    *)
(* and hashing.                                                            *)
(*                                                                         *)
(* Python strings that the code inspects character by character (the ixc   *)
(* string) are sequences of one-character strings.  Names of functionals   *)
(* are TLA+ strings, joined with \o.  A LibxcFuncs member is represented   *)
(* by its member name.  A raised exception is a record naming the          *)
(* exception class and the source line of the raise.                       *)
(***************************************************************************)
EXTENDS Integers, Sequences, FiniteSets, TLC

VARIABLES
    objs,    \* slot -> the XcFunctional instance a caller holds there, or NoObj
    src,     \* slot -> the constructor call that built the instance
    res,     \* the outcome of the last call
    ncomp,   \* slot -> attribute -> times its function body ran to completion
    raised   \* slot -> whether a read of an attribute of the instance has raised

vars == <<objs, src, res, ncomp, raised>>

(* ------------------------------------------------------------------------ *)
(* Bounds and input sets                                                    *)
(* ------------------------------------------------------------------------ *)

\* Largest number of whitespace characters put on each side of an ixc string.
MaxPad == 1

\* Packed strings are truncated / extended by up to this many characters.
MaxSkew == 1

None == "None"
Unset == "<unset>"
NoObj == [xc |-> "<no object>"]
NoExc == [exc |-> "", line |-> 0]

Raise(e, l) == [exc |-> e, line |-> l]

(* ------------------------------------------------------------------------ *)
(* pymatgen.io.abinit.libxcfuncs.LibxcFuncs: the enumeration of functional  *)
(* codes.  Each member has an integer value, a name, a family ("type") and  *)
(* a kind; exactly one of is_x_kind / is_c_kind holds for a member.         *)
(* ------------------------------------------------------------------------ *)
LibxcTable ==
    << [id |->   1, name |-> "LDA_X",         type |-> "LDA", kind |-> "x"],
       [id |->   7, name |-> "LDA_C_VWN",     type |-> "LDA", kind |-> "c"],
       [id |->  12, name |-> "LDA_C_PW",      type |-> "LDA", kind |-> "c"],
       [id |-> 101, name |-> "GGA_X_PBE",     type |-> "GGA", kind |-> "x"],
       [id |-> 102, name |-> "GGA_X_PBE_R",   type |-> "GGA", kind |-> "x"],
       [id |-> 103, name |-> "GGA_X_B86",     type |-> "GGA", kind |-> "x"],
       [id |-> 106, name |-> "GGA_X_B88",     type |-> "GGA", kind |-> "x"],
       [id |-> 109, name |-> "GGA_X_PW91",    type |-> "GGA", kind |-> "x"],
       [id |-> 116, name |-> "GGA_X_PBE_SOL", type |-> "GGA", kind |-> "x"],
       [id |-> 117, name |-> "GGA_X_RPBE",    type |-> "GGA", kind |-> "x"],
       [id |-> 120, name |-> "GGA_X_AM05",    type |-> "GGA", kind |-> "x"],
       [id |-> 130, name |-> "GGA_C_PBE",     type |-> "GGA", kind |-> "c"],
       [id |-> 131, name |-> "GGA_C_LYP",     type |-> "GGA", kind |-> "c"],
       [id |-> 133, name |-> "GGA_C_PBE_SOL", type |-> "GGA", kind |-> "c"],
       [id |-> 134, name |-> "GGA_C_PW91",    type |-> "GGA", kind |-> "c"],
       [id |-> 135, name |-> "GGA_C_AM05",    type |-> "GGA", kind |-> "c"],
       \* the code the specification's example "-999999" resolves to
       [id |-> 999, name |-> "X_999",         type |-> "GGA", kind |-> "x"] >>

LibxcMembers == {LibxcTable[i].name : i \in 1..Len(LibxcTable)}

Member(m) == LibxcTable[CHOOSE i \in 1..Len(LibxcTable) : LibxcTable[i].name = m]

\* LibxcFuncs(value): the member with that integer value; ValueError if none.
LibxcFuncs(n) ==
    IF \E i \in 1..Len(LibxcTable) : LibxcTable[i].id = n
    THEN [exc |-> NoExc,
          val |-> LibxcTable[CHOOSE i \in 1..Len(LibxcTable) : LibxcTable[i].id = n].name]
    ELSE [exc |-> Raise("ValueError", 88), val |-> None]

is_x_kind(m) == Member(m).kind = "x"
is_c_kind(m) == Member(m).kind = "c"

(* ------------------------------------------------------------------------ *)
(* Python string built-ins used by from_abinit_ixc                          *)
(* ------------------------------------------------------------------------ *)
Whitespace == {" ", "\t"}
Digits == {"0", "1", "2", "3", "4", "5", "6", "7", "8", "9"}

DigitVal(ch) ==
    CASE ch = "0" -> 0 [] ch = "1" -> 1 [] ch = "2" -> 2 [] ch = "3" -> 3
      [] ch = "4" -> 4 [] ch = "5" -> 5 [] ch = "6" -> 6 [] ch = "7" -> 7
      [] ch = "8" -> 8 [] ch = "9" -> 9

RECURSIVE lstrip(_)
lstrip(s) == IF Len(s) > 0 /\ s[1] \in Whitespace THEN lstrip(Tail(s)) ELSE s

RECURSIVE rstrip(_)
rstrip(s) ==
    IF Len(s) > 0 /\ s[Len(s)] \in Whitespace
    THEN rstrip(SubSeq(s, 1, Len(s) - 1)) ELSE s

\* str.strip(): leading and trailing whitespace removed.
strip(s) == rstrip(lstrip(s))

\* str.startswith(prefix) for a one-character prefix.
startswith(s, ch) == Len(s) > 0 /\ s[1] = ch

\* Python slice s[i:j] (0-based, end exclusive, clipped to the string).
Slice(s, i, j) ==
    LET lo == IF i > Len(s) THEN Len(s) ELSE i
        hi == IF j > Len(s) THEN Len(s) ELSE j
    IN  IF hi <= lo THEN <<>> ELSE SubSeq(s, lo + 1, hi)

RECURSIVE DigitsValue(_)
DigitsValue(s) ==
    IF Len(s) = 0 THEN 0
    ELSE 10 * DigitsValue(SubSeq(s, 1, Len(s) - 1)) + DigitVal(s[Len(s)])

\* int(s): optional surrounding whitespace, optional sign, one or more
\* decimal digits; anything else raises ValueError.
int(s) ==
    LET t == strip(s)
        signed == Len(t) > 0 /\ t[1] \in {"-", "+"}
        body == IF signed THEN Tail(t) ELSE t
        wellformed == Len(body) > 0 /\ \A i \in 1..Len(body) : body[i] \in Digits
    IN  IF ~wellformed THEN [exc |-> Raise("ValueError", 88), val |-> 0]
        ELSE [exc |-> NoExc,
              val |-> IF signed /\ t[1] = "-" THEN 0 - DigitsValue(body)
                      ELSE DigitsValue(body)]

(* ------------------------------------------------------------------------ *)
(* Class data                                                               *)
(* ------------------------------------------------------------------------ *)

\* XcFunctional.aliases: OrderedDict (x, c) --> type_name(type, name).
aliases ==
    << [k |-> <<"LDA_X", "LDA_C_PW">>,              type |-> "LDA", name |-> "PW"],
       [k |-> <<"GGA_X_PW91", "GGA_C_PW91">>,       type |-> "GGA", name |-> "PW91"],
       [k |-> <<"GGA_X_PBE", "GGA_C_PBE">>,         type |-> "GGA", name |-> "PBE"],
       [k |-> <<"GGA_X_RPBE", "GGA_C_PBE">>,        type |-> "GGA", name |-> "RPBE"],
       [k |-> <<"GGA_X_PBE_R", "GGA_C_PBE">>,       type |-> "GGA", name |-> "revPBE"],
       [k |-> <<"GGA_X_PBE_SOL", "GGA_C_PBE_SOL">>, type |-> "GGA", name |-> "PBEsol"],
       [k |-> <<"GGA_X_AM05", "GGA_C_AM05">>,       type |-> "GGA", name |-> "AM05"],
       [k |-> <<"GGA_X_B88", "GGA_C_LYP">>,         type |-> "GGA", name |-> "BLYP"] >>

\* key in aliases.  A key is a tuple; a bare code (self.xc) is looked up as
\* the 1-tuple <<code>>, which equals no pair key.
InAliases(key) == \E i \in 1..Len(aliases) : aliases[i].k = key

\* aliases[key], for a key that is in aliases.
AliasOf(key) == aliases[CHOOSE i \in 1..Len(aliases) : aliases[i].k = key]

\* XcFunctional.abinitixc_to_libxc: ixc string --> dict(x=..., c=...).
abinitixc_to_libxc ==
    << [key |-> <<"1", "1">>, x |-> "GGA_X_PBE", c |-> "GGA_C_PBE"] >>

\* XcFunctional.known_names(): the registered names, in registry order.
known_names == [i \in 1..Len(aliases) |-> aliases[i].name]

(* ------------------------------------------------------------------------ *)
(* Constructors.  Each returns [exc, obj, calls]: the exception raised (or  *)
(* NoExc), the instance built (or NoObj), and the integers handed to        *)
(* LibxcFuncs() on the way, in call order.                                  *)
(* ------------------------------------------------------------------------ *)

\* A fresh instance: the three fields, and an instance __dict__ without any
\* of the lazily computed attributes.
Instance(xc, x, c) ==
    [xc |-> xc, x |-> x, c |-> c,
     type |-> Unset, name |-> Unset, type_name |-> Unset]

Built(o, calls) == [exc |-> NoExc, obj |-> o, calls |-> calls]
Failed(e, calls) == [exc |-> e, obj |-> NoObj, calls |-> calls]

\* Mutant: the check of the xc-given branch is missing.
InitNoExclusive(xc, x, c) ==
    IF xc = None /\ (x = None \/ c = None)
    THEN Failed(Raise("ValueError", 113), <<>>)
    ELSE Built(Instance(xc, x, c), <<>>)

\* XcFunctional.__init__(self, xc=None, x=None, c=None)
__init__(xc, x, c) ==
    IF xc = None
    THEN IF x = None \/ c = None
         THEN Failed(Raise("ValueError", 113), <<>>)
         ELSE Built(Instance(xc, x, c), <<>>)
    ELSE IF x # None \/ c # None
         THEN Failed(Raise("ValueError", 116), <<>>)
         ELSE Built(Instance(xc, x, c), <<>>)

\* The table lookup index of a stripped ixc string; 0 when it is no key.
IxcIndex(ixc) ==
    IF \E i \in 1..Len(abinitixc_to_libxc) : abinitixc_to_libxc[i].key = ixc
    THEN CHOOSE i \in 1..Len(abinitixc_to_libxc) : abinitixc_to_libxc[i].key = ixc
    ELSE 0

\* Mutant: the length assertion is missing.
LengthAny(ixc) == TRUE

\* assert len(ixc[1:]) == 6
LengthIsSix(ixc) == Len(Slice(ixc, 1, Len(ixc))) = 6

\* Mutant: the swap is missing.
NoSwap(x, c) == <<x, c>>

\* if not x.is_x_kind: x, c = c, x
Swap(x, c) == IF ~is_x_kind(x) THEN <<c, x>> ELSE <<x, c>>

\* Mutant: the kind assertion is missing.
KindsAny(x, c) == TRUE

\* assert x.is_x_kind and c.is_c_kind
KindsOk(x, c) == is_x_kind(x) /\ is_c_kind(c)

\* The packed branch: a six-digit number in the form XXXCCC or CCCXXX.
Packed(ixc) ==
    IF ~LengthIsSix(ixc) THEN Failed(Raise("AssertionError", 86), <<>>)
    ELSE
    LET first == Slice(ixc, 1, 4)
        last == Slice(ixc, 4, Len(ixc))
        n1 == int(first)
    IN  IF n1.exc # NoExc THEN Failed(n1.exc, <<>>)
        ELSE
        LET x0 == LibxcFuncs(n1.val) IN
        IF x0.exc # NoExc THEN Failed(x0.exc, <<n1.val>>)
        ELSE
        LET n2 == int(last) IN
        IF n2.exc # NoExc THEN Failed(n2.exc, <<n1.val>>)
        ELSE
        LET c0 == LibxcFuncs(n2.val)
            calls == <<n1.val, n2.val>>
        IN  IF c0.exc # NoExc THEN Failed(c0.exc, calls)
            ELSE
            LET xc == Swap(x0.val, c0.val) IN
            IF ~KindsOk(xc[1], xc[2]) THEN Failed(Raise("AssertionError", 90), calls)
            ELSE LET r == __init__(None, xc[1], xc[2]) IN [r EXCEPT !.calls = calls]

\* Mutant: a string without the sign that is no table key is read as a
\* packed pair.
LookupOrPacked(ixc) ==
    IF IxcIndex(ixc) = 0 THEN Packed(<<"-">> \o ixc)
    ELSE LET e == abinitixc_to_libxc[IxcIndex(ixc)] IN __init__(None, e.x, e.c)

\* The table branch: cls(**cls.abinitixc_to_libxc[ixc]); KeyError if absent.
Lookup(ixc) ==
    IF IxcIndex(ixc) = 0 THEN Failed(Raise("KeyError", 83), <<>>)
    ELSE LET e == abinitixc_to_libxc[IxcIndex(ixc)] IN __init__(None, e.x, e.c)

\* XcFunctional.from_abinit_ixc(cls, ixc_string)
from_abinit_ixc(ixc_string) ==
    LET ixc == strip(ixc_string) IN
    IF ~startswith(ixc, "-") THEN Lookup(ixc) ELSE Packed(ixc)

\* The scan of from_name from record i on.
RECURSIVE Scan(_, _)
Scan(i, nm) ==
    IF i > Len(aliases) THEN Failed(Raise("ValueError", 102), <<>>)
    ELSE IF aliases[i].name = nm
         THEN LET k == aliases[i].k IN
              IF Len(k) = 1 THEN __init__(k[1], None, None)
              ELSE IF Len(k) = 2 THEN __init__(None, k[1], k[2])
              ELSE Failed(Raise("ValueError", 100), <<>>)
         ELSE Scan(i + 1, nm)

\* Mutant: the two components of the matching key are handed over in the
\* wrong order.
from_name_swapped(nm) ==
    LET r == Scan(1, nm) IN
    IF r.exc # NoExc THEN r ELSE __init__(r.obj.xc, r.obj.c, r.obj.x)

\* XcFunctional.from_name(cls, name)
from_name(nm) == Scan(1, nm)

(* ------------------------------------------------------------------------ *)
(* Lazily computed attributes.  A read returns [inst, exc, val, ran]: the   *)
(* instance after the read, the exception raised (or NoExc), the value, and *)
(* the attributes whose function body ran to completion during the read.    *)
(* ------------------------------------------------------------------------ *)

Returned(self, v, ran) == [inst |-> self, exc |-> NoExc, val |-> v, ran |-> ran]
Raised(self, e) == [inst |-> self, exc |-> e, val |-> Unset, ran |-> {}]

\* Mutant: the computed value is returned but not stored on the instance.
lazy_property_nostore(self, attr, body) ==
    IF self[attr] # Unset THEN Returned(self, self[attr], {})
    ELSE IF body.exc # NoExc THEN body
    ELSE Returned(body.inst, body.val, body.ran \cup {attr})

\* monty.functools.lazy_property: the function body runs on the first read
\* of the attribute and its value is stored in the instance __dict__, which
\* every later read finds first.  A body that raises stores nothing.
lazy_property(self, attr, body) ==
    IF self[attr] # Unset THEN Returned(self, self[attr], {})
    ELSE IF body.exc # NoExc THEN body
    ELSE Returned([body.inst EXCEPT ![attr] = body.val], body.val, body.ran \cup {attr})

\* Mutant: the fallback after the raise is reached.
type_composed(self) ==
    IF InAliases(<<self.xc>>) THEN Returned(self, AliasOf(<<self.xc>>).type, {})
    ELSE IF InAliases(<<self.x, self.c>>)
         THEN Returned(self, AliasOf(<<self.x, self.c>>).type, {})
    ELSE IF self.xc # None THEN Returned(self, Member(self.xc).type, {})
    ELSE Returned(self, Member(self.x).type \o "+" \o Member(self.c).type, {})

\* The body of XcFunctional.type
type_body(self) ==
    IF InAliases(<<self.xc>>) THEN Returned(self, AliasOf(<<self.xc>>).type, {})
    ELSE IF InAliases(<<self.x, self.c>>)
         THEN Returned(self, AliasOf(<<self.x, self.c>>).type, {})
    ELSE Raised(self, Raise("NotImplementedError", 131))

\* The body of XcFunctional.name
name_body(self) ==
    IF InAliases(<<self.xc>>) THEN Returned(self, AliasOf(<<self.xc>>).name, {})
    ELSE IF InAliases(<<self.x, self.c>>)
         THEN Returned(self, AliasOf(<<self.x, self.c>>).name, {})
    ELSE IF self.xc # None THEN Returned(self, Member(self.xc).name, {})
    ELSE Returned(self, Member(self.x).name \o "+" \o Member(self.c).name, {})

\* self.type
type(self) == lazy_property(self, "type", type_body(self))

\* self.name
name(self) == lazy_property(self, "name", name_body(self))

\* Mutant: type and name joined in the wrong order.
type_name_swapped(self) ==
    LET t == type(self) IN
    IF t.exc # NoExc THEN t
    ELSE LET n == name(t.inst) IN
         IF n.exc # NoExc THEN n
         ELSE Returned(n.inst, n.val \o "-" \o t.val, t.ran \cup n.ran)

\* The body of XcFunctional.type_name: "-".join([self.type, self.name])
type_name_body(self) ==
    LET t == type(self) IN
    IF t.exc # NoExc THEN t
    ELSE LET n == name(t.inst) IN
         IF n.exc # NoExc THEN n
         ELSE Returned(n.inst, t.val \o "-" \o n.val, t.ran \cup n.ran)

\* self.type_name
type_name(self) == lazy_property(self, "type_name", type_name_body(self))

(* ------------------------------------------------------------------------ *)
(* Equality and hashing.  The other operand is tagged with its Python type: *)
(* [t |-> "None"], [t |-> "XcFunctional", v |-> instance] or                *)
(* [t |-> "str", v |-> string].  __eq__ returns [val, self, other]: the     *)
(* truth value and both operands after the reads of their names.            *)
(* ------------------------------------------------------------------------ *)
PyNone == [t |-> "None", v |-> None]
PyObj(o) == [t |-> "XcFunctional", v |-> o]
PyStr(s) == [t |-> "str", v |-> s]

\* The built-in hash of a string: a function of its characters alone, and
\* not injective.
hash(s) == Len(s)

\* XcFunctional.__hash__(self): [val, self]
__hash__(self) == LET n == name(self) IN [val |-> hash(n.val), self |-> n.inst]

\* Mutant: only another XcFunctional can be equal.
eq_nostr(self, other) ==
    IF other.t = "XcFunctional"
    THEN LET n == name(self)
             m == name(other.v)
         IN  [val |-> n.val = m.val, self |-> n.inst, other |-> PyObj(m.inst)]
    ELSE [val |-> FALSE, self |-> self, other |-> other]

\* XcFunctional.__eq__(self, other)
__eq__(self, other) ==
    IF other.t = "None" THEN [val |-> FALSE, self |-> self, other |-> other]
    ELSE IF other.t = "XcFunctional"
    THEN LET n == name(self)
             m == name(other.v)
         IN  [val |-> n.val = m.val, self |-> n.inst, other |-> PyObj(m.inst)]
    ELSE LET n == name(self) IN [val |-> n.val = other.v, self |-> n.inst, other |-> other]

\* XcFunctional.__ne__(self, other): not self == other
__ne__(self, other) == LET e == __eq__(self, other) IN [e EXCEPT !.val = ~e.val]

(* ------------------------------------------------------------------------ *)
(* Inputs                                                                   *)
(* ------------------------------------------------------------------------ *)
Slots == {1, 2, 3}
Attrs == {"type", "name", "type_name"}

\* Arguments of direct construction.
MakeCodes == {"GGA_X_PBE", "GGA_C_PBE", "GGA_X_B86", "LDA_C_PW"}
MakeArgs == (MakeCodes \cup {None}) \X (MakeCodes \cup {None}) \X (MakeCodes \cup {None})

\* Integers packed into ixc strings: exchange codes, correlation codes and
\* one integer that is no code.
PackInts == {1, 12, 101, 130, 555, 999}
SkewInts == {101, 130}

DigitChar(d) ==
    CASE d = 0 -> "0" [] d = 1 -> "1" [] d = 2 -> "2" [] d = 3 -> "3"
      [] d = 4 -> "4" [] d = 5 -> "5" [] d = 6 -> "6" [] d = 7 -> "7"
      [] d = 8 -> "8" [] d = 9 -> "9"

\* The three decimal digits of n, zero padded.
D3(n) == << DigitChar((n \div 100) % 10), DigitChar((n \div 10) % 10), DigitChar(n % 10) >>

\* "-" followed by the digits of a and of b.
Pack(a, b) == <<"-">> \o D3(a) \o D3(b)

RECURSIVE Rep(_, _)
Rep(ch, n) == IF n = 0 THEN <<>> ELSE <<ch>> \o Rep(ch, n - 1)

PackedBodies == {Pack(a, b) : a \in PackInts, b \in PackInts}

SkewedBodies ==
    {SubSeq(Pack(a, b), 1, 7 - d) : a \in SkewInts, b \in SkewInts, d \in 1..MaxSkew}
    \cup {Pack(a, b) \o Rep("0", d) : a \in SkewInts, b \in SkewInts, d \in 1..MaxSkew}

OtherBodies ==
    { <<>>, <<"1">>, <<"1", "1">>, <<"1", "1", "1">>, <<"-">>,
      <<"1", "0", "1", "1", "3", "0">>,
      <<"-", "+", "0", "1", "1", "3", "0">>,
      <<"-", " ", "1", "2", "1", "0", "1">>,
      <<"-", "1", " ", "1", "1", "3", "0">>,
      <<"-", "1", "0", "1", "1", "3", "x">>,
      <<"-", "-", "0", "1", "1", "3", "0">>,
      <<"-", "1", "2", "3", "4", "5">> }

IxcStrings ==
    {Rep(" ", l) \o b \o Rep("\t", r) :
        l \in 0..MaxPad, r \in 0..MaxPad,
        b \in PackedBodies \cup SkewedBodies \cup OtherBodies}

\* self.name of an instance, whatever is cached on it.
NameOf(o) == name(o).val

\* Every instance the three constructors build from the inputs above.
Constructible ==
    ( {__init__(a[1], a[2], a[3]).obj : a \in MakeArgs}
      \cup {from_abinit_ixc(s).obj : s \in IxcStrings}
      \cup {from_name(known_names[i]).obj : i \in 1..Len(known_names)} )
    \ {NoObj}

NameInputs ==
    {known_names[i] : i \in 1..Len(known_names)}
    \cup {NameOf(f) : f \in Constructible}
    \cup {"NOT_A_REAL_FUNCTIONAL", "pbe", ""}

(* ------------------------------------------------------------------------ *)
(* State machine                                                            *)
(* ------------------------------------------------------------------------ *)
NoSrc == [op |-> "", arg |-> <<>>, str |-> ""]

\* The outcome of a call: the operation and the slot it was called for; its
\* arguments (arg: the xc, x, c of a direct construction or the characters
\* of an ixc string; str: a name string; other: the slot of the other
\* operand); the exception raised; and what it returned (obj: an instance;
\* val: a string; truth: a truth value; num: a hash; calls: as above).
Outcome(op, k) ==
    [op |-> op, slot |-> k, arg |-> <<>>, str |-> "", other |-> 0,
     exc |-> NoExc, obj |-> NoObj, val |-> Unset, truth |-> FALSE,
     num |-> 0, calls |-> <<>>]
Zero == [a \in Attrs |-> 0]

Init ==
    /\ objs = [k \in Slots |-> NoObj]
    /\ src = [k \in Slots |-> NoSrc]
    /\ res = Outcome("", 0)
    /\ ncomp = [k \in Slots |-> Zero]
    /\ raised = [k \in Slots |-> FALSE]

\* A constructor call that returned or raised r; the instance it returned
\* is bound to slot k.  A slot names one instance for the whole of its life,
\* so a constructor is called for an empty slot only.
Construct(k, op, arg, str, r) ==
    /\ objs' = IF r.exc = NoExc THEN [objs EXCEPT ![k] = r.obj] ELSE objs
    /\ src' = IF r.exc = NoExc
              THEN [src EXCEPT ![k] = [op |-> op, arg |-> arg, str |-> str]]
              ELSE src
    /\ res' = [Outcome(op, k) EXCEPT !.arg = arg, !.str = str, !.exc = r.exc,
                                     !.obj = r.obj, !.calls = r.calls]
    /\ UNCHANGED <<ncomp, raised>>

\* XcFunctional(xc=..., x=..., c=...)
Make(k, a) ==
    /\ objs[k] = NoObj
    /\ Construct(k, "make", a, "", __init__(a[1], a[2], a[3]))

\* XcFunctional.from_abinit_ixc(s)
FromAbinitIxc(k, s) ==
    /\ objs[k] = NoObj
    /\ Construct(k, "from_abinit_ixc", s, "", from_abinit_ixc(s))

\* XcFunctional.from_name(n)
FromName(k, n) ==
    /\ objs[k] = NoObj
    /\ Construct(k, "from_name", <<>>, n, from_name(n))

\* A read of a lazily computed attribute of the instance in slot k.
Read(k, op, r) ==
    /\ objs[k] # NoObj
    /\ objs' = [objs EXCEPT ![k] = r.inst]
    /\ ncomp' = [ncomp EXCEPT ![k] =
                    [a \in Attrs |-> IF a \in r.ran THEN @[a] + 1 ELSE @[a]]]
    /\ raised' = [raised EXCEPT ![k] = @ \/ r.exc # NoExc]
    /\ res' = [Outcome(op, k) EXCEPT !.exc = r.exc, !.val = r.val]
    /\ UNCHANGED src

ReadType(k) == objs[k] # NoObj /\ Read(k, "type", type(objs[k]))
ReadName(k) == objs[k] # NoObj /\ Read(k, "name", name(objs[k]))
ReadTypeName(k) == objs[k] # NoObj /\ Read(k, "type_name", type_name(objs[k]))

\* The number of name bodies a comparison or hash ran on the instance o,
\* which is o2 afterwards.
NameRan(o, o2) == IF o.name = Unset /\ o2.name # Unset THEN 1 ELSE 0

\* objs[k] == objs[j] and objs[k] != objs[j]
Compare(k, j, op, e) ==
    /\ objs' = [objs EXCEPT ![k] = e.self, ![j] = e.other.v]
    /\ ncomp' = [s \in Slots |->
                    IF s \in {k, j}
                    THEN [ncomp[s] EXCEPT !.name = @ + NameRan(objs[s], objs'[s])]
                    ELSE ncomp[s]]
    /\ res' = [Outcome(op, k) EXCEPT !.other = j, !.truth = e.val]
    /\ UNCHANGED <<src, raised>>

Eq(k, j) ==
    /\ objs[k] # NoObj /\ objs[j] # NoObj
    /\ Compare(k, j, "eq", __eq__(objs[k], PyObj(objs[j])))

Ne(k, j) ==
    /\ objs[k] # NoObj /\ objs[j] # NoObj
    /\ Compare(k, j, "ne", __ne__(objs[k], PyObj(objs[j])))

\* objs[k] == other, for other a string or None
CompareOther(k, op, other, e) ==
    /\ objs' = [objs EXCEPT ![k] = e.self]
    /\ ncomp' = [ncomp EXCEPT ![k].name = @ + NameRan(objs[k], e.self)]
    /\ res' = [Outcome(op, k) EXCEPT !.str = other.v, !.truth = e.val]
    /\ UNCHANGED <<src, raised>>

EqStr(k, s) ==
    /\ objs[k] # NoObj
    /\ CompareOther(k, "eq_str", PyStr(s), __eq__(objs[k], PyStr(s)))

EqNone(k) ==
    /\ objs[k] # NoObj
    /\ CompareOther(k, "eq_none", PyNone, __eq__(objs[k], PyNone))

\* hash(objs[k])
Hash(k) ==
    /\ objs[k] # NoObj
    /\ LET h == __hash__(objs[k]) IN
       /\ objs' = [objs EXCEPT ![k] = h.self]
       /\ ncomp' = [ncomp EXCEPT ![k].name = @ + NameRan(objs[k], h.self)]
       /\ res' = [Outcome("hash", k) EXCEPT !.num = h.val]
       /\ UNCHANGED <<src, raised>>

\* One instance: every constructor on every input, then any reads.
Next ==
    \/ \E a \in MakeArgs : Make(1, a)
    \/ \E s \in IxcStrings : FromAbinitIxc(1, s)
    \/ \E n \in NameInputs : FromName(1, n)
    \/ ReadType(1)
    \/ ReadName(1)
    \/ ReadTypeName(1)
    \/ Eq(1, 1)
    \/ \E n \in NameInputs : EqStr(1, n)
    \/ EqNone(1)
    \/ Hash(1)

Spec == Init /\ [][Next]_vars

(* ------------------------------------------------------------------------ *)
(* Three instances, built through the three constructors, compared and      *)
(* hashed in every combination.                                             *)
(* ------------------------------------------------------------------------ *)
EqMakeArgs ==
    { <<None, "GGA_X_PBE", "GGA_C_PBE">>, <<None, "GGA_X_B86", "GGA_C_PBE">>,
      <<"GGA_X_PBE", None, None>> }
EqIxcStrings == { <<"1", "1">>, Pack(130, 101) }
EqNames == {"PBE", "PW"}
EqStrings == {"PBE", "GGA_X_B86+GGA_C_PBE"}

NextEq ==
    \/ \E k \in Slots, a \in EqMakeArgs : Make(k, a)
    \/ \E k \in Slots, s \in EqIxcStrings : FromAbinitIxc(k, s)
    \/ \E k \in Slots, n \in EqNames : FromName(k, n)
    \/ \E k \in Slots, j \in Slots : Eq(k, j)
    \/ \E k \in Slots, j \in Slots : Ne(k, j)
    \/ \E k \in Slots, n \in EqStrings : EqStr(k, n)
    \/ \E k \in Slots : EqNone(k)
    \/ \E k \in Slots : Hash(k)

SpecEq == Init /\ [][NextEq]_vars

(* ------------------------------------------------------------------------ *)
(* Properties                                                               *)
(* ------------------------------------------------------------------------ *)
Occupied == {k \in Slots : objs[k] # NoObj}
AliasNames == {aliases[i].name : i \in 1..Len(aliases)}
IdOf(m) == Member(m).id
XKind == {m \in LibxcMembers : is_x_kind(m)}
CKind == {m \in LibxcMembers : is_c_kind(m)}

\* The instance is registered: its combined code or its pair is an alias key.
Registered(o) == InAliases(<<o.xc>>) \/ InAliases(<<o.x, o.c>>)
RecordOf(o) == IF InAliases(<<o.xc>>) THEN AliasOf(<<o.xc>>) ELSE AliasOf(<<o.x, o.c>>)

\* o == p, for two instances
Equal(o, p) == __eq__(o, PyObj(p)).val

\* C1: every instance holds either a combined code alone or an exchange and
\* a correlation code alone; direct construction succeeds for exactly these
\* two argument shapes, storing the arguments as given, and raises the
\* ValueError of __init__ for every other shape, building nothing.
C1_ExactlyOneForm ==
    /\ \A k \in Occupied :
          LET o == objs[k] IN
          /\ (o.xc # None) # (o.x # None /\ o.c # None)
          /\ o.xc # None => (o.x = None /\ o.c = None)
    /\ res.op = "make" =>
          LET a == res.arg
              pairForm == a[1] = None /\ a[2] # None /\ a[3] # None
              combinedForm == a[1] # None /\ a[2] = None /\ a[3] = None
          IN  IF pairForm \/ combinedForm
              THEN /\ res.exc = NoExc
                   /\ <<res.obj.xc, res.obj.x, res.obj.c>> = a
                   /\ <<objs[res.slot].xc, objs[res.slot].x, objs[res.slot].c>> = a
              ELSE /\ res.exc.exc = "ValueError"
                   /\ res.exc.line \in {113, 116}
                   /\ res.obj = NoObj
                   /\ objs[res.slot] = NoObj

C1_Witness ==
    /\ res.op = "make" /\ res.exc = NoExc
    /\ objs[res.slot].xc = "GGA_X_B86"

\* C2: == on instances is reflexive, symmetric and transitive; instances
\* with the same name are equal and have the same hash, however they were
\* built; an instance equals its own name string; != is the negation of ==;
\* and the comparisons the callers made returned these values.
C2_EqualityLaws ==
    /\ \A i \in Occupied :
          /\ Equal(objs[i], objs[i])
          /\ __eq__(objs[i], PyStr(NameOf(objs[i]))).val
          /\ ~__eq__(objs[i], PyNone).val
    /\ \A i \in Occupied : \A j \in Occupied :
          /\ Equal(objs[i], objs[j]) = Equal(objs[j], objs[i])
          /\ NameOf(objs[i]) = NameOf(objs[j]) =>
                /\ Equal(objs[i], objs[j])
                /\ __hash__(objs[i]).val = __hash__(objs[j]).val
          /\ __ne__(objs[i], PyObj(objs[j])).val = ~Equal(objs[i], objs[j])
          /\ \A l \in Occupied :
                Equal(objs[i], objs[j]) /\ Equal(objs[j], objs[l])
                    => Equal(objs[i], objs[l])
    /\ res.op = "eq" => res.truth = (NameOf(objs[res.slot]) = NameOf(objs[res.other]))
    /\ res.op = "ne" => res.truth = (NameOf(objs[res.slot]) # NameOf(objs[res.other]))
    /\ res.op = "eq_str" => res.truth = (NameOf(objs[res.slot]) = res.str)
    /\ res.op = "hash" => res.num = hash(NameOf(objs[res.slot]))

C2_Witness ==
    /\ res.op = "eq" /\ res.truth
    /\ res.slot # res.other
    /\ src[res.slot].op = "from_abinit_ixc" /\ src[res.other].op = "from_name"
    /\ \E l \in Occupied : src[l].op = "make" /\ NameOf(objs[l]) = NameOf(objs[res.slot])

\* C3: from_name succeeds on the name of every alias record, and type_name
\* of the instance it builds is the record's type, "-", the record's name.
C3_TypeNameOfAlias ==
    /\ \A i \in 1..Len(aliases) :
          LET r == from_name(aliases[i].name) IN
          /\ r.exc = NoExc
          /\ type_name(r.obj).exc = NoExc
          /\ type_name(r.obj).val = aliases[i].type \o "-" \o aliases[i].name
    /\ (res.op = "from_name" /\ res.str \in AliasNames) => res.exc = NoExc
    /\ (res.op = "type_name" /\ src[res.slot].op = "from_name") =>
          /\ res.exc = NoExc
          /\ \E i \in 1..Len(aliases) :
                /\ aliases[i].name = src[res.slot].str
                /\ res.val = aliases[i].type \o "-" \o aliases[i].name

C3_Witness ==
    /\ res.op = "type_name" /\ res.val = "GGA-BLYP"
    /\ src[res.slot].op = "from_name" /\ src[res.slot].str = "BLYP"

\* C4: for an exchange code X and a correlation code C, the packed string
\* of (X, C) and the packed string of (C, X) both build an instance with
\* exchange X and correlation C, and the two instances are equal.
C4_BothDigitOrders ==
    res.op = "from_abinit_ixc" =>
        \A X \in XKind : \A C \in CKind :
            res.arg \in {Pack(IdOf(X), IdOf(C)), Pack(IdOf(C), IdOf(X))} =>
                /\ res.exc = NoExc
                /\ <<res.obj.xc, res.obj.x, res.obj.c>> = <<None, X, C>>
                /\ \A s \in {Pack(IdOf(X), IdOf(C)), Pack(IdOf(C), IdOf(X))} :
                      /\ from_abinit_ixc(s).exc = NoExc
                      /\ Equal(res.obj, from_abinit_ixc(s).obj)
                      /\ Equal(from_abinit_ixc(s).obj, res.obj)

C4_Witness ==
    /\ res.op = "from_abinit_ixc" /\ res.arg = Pack(130, 101)
    /\ res.exc = NoExc
    /\ objs[res.slot].x = "GGA_X_PBE" /\ objs[res.slot].c = "GGA_C_PBE"

\* C5 as stated: from_name applied to the name of any instance the three
\* constructors build succeeds and returns an instance equal to it.
C5_NameReversible ==
    res.op = "from_name" =>
        \A f \in Constructible :
            NameOf(f) = res.str =>
                /\ res.exc = NoExc
                /\ Equal(res.obj, f)
                /\ Equal(f, res.obj)

\* C5 as amended: from_name applied to the name of an instance whose
\* combined code or (exchange, correlation) pair is an alias key succeeds
\* and returns an instance equal to it; applied to the name of any other
\* instance, which is the composed fallback name, it raises the ValueError
\* of the failed scan and builds nothing.
C5_NameReversibleIfRegistered ==
    res.op = "from_name" =>
        \A f \in Constructible :
            NameOf(f) = res.str =>
                IF Registered(f)
                THEN /\ res.exc = NoExc
                     /\ Equal(res.obj, f)
                     /\ Equal(f, res.obj)
                ELSE /\ res.exc = Raise("ValueError", 102)
                     /\ res.obj = NoObj
                     /\ objs[res.slot] = NoObj

C5_Witness ==
    /\ res.op = "from_name" /\ res.exc = NoExc
    /\ \E s \in IxcStrings :
          /\ from_abinit_ixc(s).exc = NoExc
          /\ startswith(strip(s), "-")
          /\ NameOf(from_abinit_ixc(s).obj) = res.str
          /\ Equal(objs[res.slot], from_abinit_ixc(s).obj)

\* C6: on an instance that is not registered, type raises
\* NotImplementedError and caches nothing, type_name raises with it, and
\* name returns the combined code's name or exchange name "+" correlation
\* name; on a registered instance type and name return the alias record's
\* type and name.
C6_TypeFatalNameFallsBack ==
    \A k \in Occupied :
        LET o == objs[k] IN
        /\ ~Registered(o) => (o.type = Unset /\ o.type_name = Unset)
        /\ res.slot = k =>
              /\ res.op = "type" =>
                    IF Registered(o)
                    THEN res.exc = NoExc /\ res.val = RecordOf(o).type
                    ELSE res.exc = Raise("NotImplementedError", 131) /\ res.val = Unset
              /\ (res.op = "type_name" /\ ~Registered(o)) =>
                    res.exc = Raise("NotImplementedError", 131) /\ res.val = Unset
              /\ res.op = "name" =>
                    /\ res.exc = NoExc
                    /\ res.val = IF Registered(o) THEN RecordOf(o).name
                                 ELSE IF o.xc # None THEN Member(o.xc).name
                                 ELSE Member(o.x).name \o "+" \o Member(o.c).name

C6_Witness ==
    /\ res.op = "type_name" /\ res.exc = Raise("NotImplementedError", 131)
    /\ objs[res.slot].name = "GGA_X_B86+GGA_C_PBE"

\* C7: a packed string of the right length whose two parts resolve to two
\* codes of the same kind (as "-999999" does) fails the kind assertion and
\* builds nothing; every instance the packed branch builds has an exchange
\* code in x and a correlation code in c.
C7_SameKindRejected ==
    (res.op = "from_abinit_ixc" /\ startswith(strip(res.arg), "-")) =>
        /\ (/\ Len(res.calls) = 2
            /\ LibxcFuncs(res.calls[1]).exc = NoExc
            /\ LibxcFuncs(res.calls[2]).exc = NoExc
            /\ is_x_kind(LibxcFuncs(res.calls[1]).val)
                  = is_x_kind(LibxcFuncs(res.calls[2]).val)) =>
              /\ res.exc = Raise("AssertionError", 90)
              /\ res.obj = NoObj
              /\ objs[res.slot] = NoObj
        /\ strip(res.arg) = Pack(999, 999) => res.exc = Raise("AssertionError", 90)
        /\ res.exc = NoExc =>
              /\ res.obj.xc = None
              /\ is_x_kind(res.obj.x) /\ ~is_c_kind(res.obj.x)
              /\ is_c_kind(res.obj.c) /\ ~is_x_kind(res.obj.c)

C7_Witness ==
    /\ res.op = "from_abinit_ixc" /\ res.arg = Pack(999, 999)
    /\ res.exc = Raise("AssertionError", 90)
    /\ res.calls = <<999, 999>>

\* C8: a string that does not start with "-" once stripped is looked up in
\* abinitixc_to_libxc and nowhere else: a key builds the instance of its
\* entry (for "11" one equal to from_name("PBE")), anything else raises
\* KeyError, and no part of the string is resolved as a code.
C8_UnsignedIsTableOnly ==
    (res.op = "from_abinit_ixc" /\ ~startswith(strip(res.arg), "-")) =>
        /\ res.calls = <<>>
        /\ IF \E i \in 1..Len(abinitixc_to_libxc) :
                  abinitixc_to_libxc[i].key = strip(res.arg)
           THEN /\ res.exc = NoExc
                /\ \E i \in 1..Len(abinitixc_to_libxc) :
                      /\ abinitixc_to_libxc[i].key = strip(res.arg)
                      /\ <<res.obj.xc, res.obj.x, res.obj.c>>
                            = <<None, abinitixc_to_libxc[i].x, abinitixc_to_libxc[i].c>>
                /\ strip(res.arg) = <<"1", "1">> =>
                      /\ Equal(res.obj, from_name("PBE").obj)
                      /\ Equal(from_name("PBE").obj, res.obj)
           ELSE /\ res.exc = Raise("KeyError", 83)
                /\ res.obj = NoObj
                /\ objs[res.slot] = NoObj

C8_Witness ==
    /\ res.op = "from_abinit_ixc" /\ res.arg = <<" ", "1", "1", "\t">>
    /\ res.exc = NoExc
    /\ NameOf(objs[res.slot]) = "PBE"

\* C9: a stripped string that starts with "-" and has other than six
\* characters after it fails the length assertion before anything is handed
\* to LibxcFuncs, and builds nothing.
C9_WrongLengthRejected ==
    (/\ res.op = "from_abinit_ixc"
     /\ startswith(strip(res.arg), "-")
     /\ Len(strip(res.arg)) - 1 # 6) =>
        /\ res.exc = Raise("AssertionError", 86)
        /\ res.calls = <<>>
        /\ res.obj = NoObj
        /\ objs[res.slot] = NoObj

C9_Witness ==
    /\ res.op = "from_abinit_ixc" /\ res.arg = <<"-", "1", "2", "3", "4", "5">>
    /\ res.exc = Raise("AssertionError", 86)

\* What every step keeps of the instance in slot k.
ReadsKeep(k) ==
    objs[k] # NoObj =>
        /\ <<objs'[k].xc, objs'[k].x, objs'[k].c>> = <<objs[k].xc, objs[k].x, objs[k].c>>
        /\ \A a \in Attrs :
              /\ objs[k][a] # Unset =>
                    /\ objs'[k][a] = objs[k][a]
                    /\ ncomp'[k][a] = ncomp[k][a]
              /\ (res'.slot = k /\ res'.op = a) =>
                    /\ objs[k][a] # Unset => (res'.exc = NoExc /\ res'.val = objs[k][a])
                    /\ res'.exc = NoExc => objs'[k][a] = res'.val
                    /\ res'.exc # NoExc =>
                          /\ objs'[k] = objs[k]
                          /\ name(objs'[k]).exc = NoExc
                          /\ name(objs'[k]).val = NameOf(Instance(objs[k].xc, objs[k].x, objs[k].c))

\* C10: the body of each of type, name and type_name completes at most once
\* per instance; a value once cached is what every later read returns and
\* is never recomputed; no read changes xc, x or c; and a read that raises
\* changes nothing, so that name still returns its value.
C10_Memoized ==
    /\ [](\A k \in Slots : \A a \in Attrs :
            /\ ncomp[k][a] <= 1
            /\ (objs[k] # NoObj /\ objs[k][a] # Unset) => ncomp[k][a] = 1)
    /\ [][\A k \in Slots : ReadsKeep(k)]_vars

C10_Witness ==
    /\ res.op = "name" /\ res.exc = NoExc
    /\ raised[res.slot]
    /\ objs[res.slot].type = Unset
    /\ ncomp[res.slot] = [type |-> 0, name |-> 1, type_name |-> 0]

====
